---- MODULE Spec2Model ----
(***************************************************************************)
(* Ledger and transfer subsystem of the biometric wallet: the wallets and  *)
(* transactions tables (server/db.ts) and the tRPC handlers that read and  *)
(* write them (routers/transactions.ts, routers/wallets.ts,                *)
(* routers/crypto.ts).                                                     *)
(*                                                                         *)
(* Every handler is an async function; each `await` of a db.ts helper is   *)
(* one step of the handler, and the synchronous code that follows it up to *)
(* the next await belongs to the same step.  Handlers of different         *)
(* requests interleave at the awaits.  No handler opens a database         *)
(* transaction, so every db.ts call commits on its own.                    *)
(*                                                                         *)
(* Amounts and balances are decimal(18,8) strings in the program; here     *)
(* they are the integer count of the smallest unit, on which parseFloat,   *)
(* the float arithmetic, toString and the column's rounding are exact for  *)
(* the magnitudes used.                                                    *)
(* The section on decimal strings models parseFloat as what it is, the     *)
(* nearest IEEE double, on amounts of 2^Binade units and a few smallest    *)
(* units more, where a double no longer tells neighbouring amounts apart.  *)
(***************************************************************************)
EXTENDS Integers, Sequences, FiniteSets, TLC

\* ------------------------------------------------------------------ bounds
MaxTx == 3          \* rows the transactions table may hold
MaxWallets == 4     \* rows the wallets table may hold

Procs == {"p1", "p2"}             \* request handlers that may run concurrently
Users == {1, 2}                   \* users.id of the registered users
Callers == {1}                    \* ctx.user.id of the ledger requests
ToUsers == {2}                    \* input.toUserId of transactions.transfer
Currencies == {"USD", "BTC"}      \* input.currencyCode of wallets.create
Cryptos == {"BTC", "ETH"}         \* z.enum(["BTC", "ETH"])
Amounts == {-1, 1}                \* input.amount, in smallest units
RaceAmounts == {60, 80}           \* amounts of two transfers racing for a balance of 100
Addresses == {"", "addrX"}        \* input.address of wallets.create ("" = absent)
WalletIds == {1, 2, 3}            \* wallet ids a ledger request names (3: no such row)
RowIds == 1..MaxWallets           \* ids the wallets table may assign

MockBTC == "1A1z7agoat4FqCnf4Xy2MQUqLCWCuqq2em"
MockETH == "0x742d35Cc6634C0532925a3b844Bc9e7595f42bE"

VARIABLES
    wallets,        \* the wallets table, in id order: wallets[i].id = i
    transactions,   \* the transactions table, in id order
    pc,             \* per handler: the await it is suspended at, or "idle"
    req,            \* per handler: ctx.user.id and input of its call
    loc,            \* per handler: the locals read from storage
    resp,           \* per handler: the value its last call returned
    hist,           \* history: what the current/last call of a handler wrote
    ledger          \* history: reference balance, moved only by calls that
                    \* returned success, by exactly their amount

vars == <<wallets, transactions, pc, req, loc, resp, hist, ledger>>

\* ------------------------------------------------------------- db.ts model
Wallet(id, userId, currencyCode, address) ==
    [id |-> id, userId |-> userId, currencyCode |-> currencyCode,
     balance |-> 0, address |-> address, isActive |-> TRUE]

\* db.insert(wallets).values({userId, currencyCode, address, balance: "0", isActive: true})
createWallet(ws, userId, currencyCode, address) ==
    Append(ws, Wallet(Len(ws) + 1, userId, currencyCode, address))

\* db.select().from(wallets).where(eq(wallets.userId, userId))
getUserWallets(userId) ==
    SelectSeq(wallets, LAMBDA w : w.userId = userId)

\* db.select().from(wallets).where(eq(wallets.id, walletId)).limit(1):
\* the result list, empty when no row has the id
getWalletById(walletId) ==
    IF walletId \in DOMAIN wallets THEN <<wallets[walletId]>> ELSE <<>>

\* db.update(wallets).set({balance: newBalance}).where(eq(wallets.id, walletId))
updateWalletBalance(ws, walletId, newBalance) ==
    [i \in DOMAIN ws |->
        IF ws[i].id = walletId THEN [ws[i] EXCEPT !.balance = newBalance]
        ELSE ws[i]]

\* an insertion that replaces the newest row instead of adding one
createTransaction_Overwrites(txs, data) ==
    IF Len(txs) = 0 THEN <<[data EXCEPT !.id = 1]>>
    ELSE [txs EXCEPT ![Len(txs)] = [data EXCEPT !.id = Len(txs)]]

\* db.insert(transactions).values(data); the id is AUTO_INCREMENT
createTransaction(txs, data) ==
    Append(txs, [data EXCEPT !.id = Len(txs) + 1])

\* InsertTransaction; 0 stands for a NULL user id
TransactionData(fromUserId, toUserId, fromWalletId, toWalletId, amount, fee, type, status) ==
    [id |-> 0, fromUserId |-> fromUserId, toUserId |-> toUserId,
     fromWalletId |-> fromWalletId, toWalletId |-> toWalletId,
     amount |-> amount, fee |-> fee, transactionType |-> type, status |-> status]

\* ------------------------------------------------------- handler plumbing
NoReq ==
    [op |-> "", user |-> 0, walletId |-> 0, toWalletId |-> 0, toUserId |-> 0,
     amount |-> 0, currency |-> "", address |-> "", transactionId |-> 0, format |-> "",
     limit |-> 0, offset |-> 0, type |-> "", status |-> ""]

NoLoc == [balance |-> 0, toBalance |-> 0]

NoResp == [success |-> FALSE, msg |-> "", address |-> "", data |-> <<>>, total |-> 0]

NoDelta == [w \in RowIds |-> 0]

NoHist == [txs |-> {}, wallets |-> {}, delta |-> NoDelta]

Ok(msg) == [NoResp EXCEPT !.success = TRUE, !.msg = msg]

OkAddress(address) == [NoResp EXCEPT !.success = TRUE, !.address = address]

OkData(data) == [NoResp EXCEPT !.success = TRUE, !.data = data]

Err(msg) == [NoResp EXCEPT !.msg = msg]

\* the message of each handler's catch block
CatchMsg(op) ==
    CASE op = "transfer" -> "Transfer failed"
      [] op = "recordDeposit" -> "Failed to record deposit"
      [] op = "recordWithdrawal" -> "Failed to record withdrawal"
      [] op = "create" -> "Failed to create wallet"
      [] op = "generateAddress" -> "Failed to generate address"
      [] op = "initiateWithdrawal" -> "Failed to initiate withdrawal"
      [] op = "export" -> "Failed to export transactions"
      [] op = "transactions.list" -> "Failed to retrieve transactions"
      [] op = "transactions.getById" -> "Failed to retrieve transaction"
      [] op = "wallets.list" -> "Failed to retrieve wallets"
      [] op = "wallets.getById" -> "Failed to retrieve wallet"
      [] op = "getBalance" -> "Failed to retrieve balance"
      [] op = "getPortfolioValue" -> "Failed to calculate portfolio value"
      [] op = "getDistribution" -> "Failed to calculate distribution"
      [] op = "getDepositAddress" -> "Failed to retrieve address"
      [] OTHER -> "Failed"

\* what stays known of a request once its call has returned
Residue(rq) ==
    [NoReq EXCEPT !.op = rq.op, !.user = rq.user, !.walletId = rq.walletId,
                  !.currency = rq.currency, !.transactionId = rq.transactionId,
                  !.format = rq.format, !.limit = rq.limit, !.offset = rq.offset,
                  !.type = rq.type, !.status = rq.status]

\* the handler returns r: its locals die, its response is kept
Return(p, rq, r) ==
    /\ pc' = [pc EXCEPT ![p] = "idle"]
    /\ req' = [req EXCEPT ![p] = Residue(rq)]
    /\ loc' = [loc EXCEPT ![p] = NoLoc]
    /\ resp' = [resp EXCEPT ![p] = r]

\* the handler suspends at its next await
Goto(p, label, rq, l) ==
    /\ pc' = [pc EXCEPT ![p] = label]
    /\ req' = [req EXCEPT ![p] = rq]
    /\ loc' = [loc EXCEPT ![p] = l]
    /\ resp' = [resp EXCEPT ![p] = NoResp]

\* a request arrives at an idle handler, which runs to its first await
Accept(p) ==
    /\ pc[p] = "idle"
    /\ hist' = [hist EXCEPT ![p] = NoHist]

\* the db.ts helper awaited throws ("Database not available", a lost
\* connection): the catch block of the handler returns its generic error,
\* which says nothing of the wallet the request named
Throws(p, rq) == Return(p, [rq EXCEPT !.walletId = 0], Err(CatchMsg(rq.op)))

\* handlers that have yet to insert a transactions row / a wallets row
TxInFlight ==
    Cardinality({p \in Procs : pc[p] \in {"t_getTo", "t_createTx", "d_createTx", "w_createTx",
                                             "wd_createTx", "i_createTx"}})

WalletInFlight ==
    Cardinality({p \in Procs : pc[p] \in {"c_create", "g_create"}})

TxRoom == Len(transactions) + TxInFlight < MaxTx

WalletRoom == Len(wallets) + WalletInFlight < MaxWallets

\* history of a write of the running call
WroteTx(p) ==
    hist' = [hist EXCEPT ![p].txs = @ \cup {Len(transactions) + 1}]

WroteWallet(p) ==
    hist' = [hist EXCEPT ![p].wallets = @ \cup {Len(wallets) + 1}]

WroteBalance(p, walletId, newBalance) ==
    hist' = [hist EXCEPT ![p].delta[walletId] = @ + (newBalance - wallets[walletId].balance)]

\* the first await of a call throws: nothing was read, nothing is written
CallThrows(p, op, u, c) ==
    /\ Accept(p)
    /\ Throws(p, [NoReq EXCEPT !.op = op, !.user = u, !.currency = c])
    /\ UNCHANGED <<wallets, transactions, ledger>>

\* an await after the first one throws
StorageFails(p) ==
    /\ pc[p] # "idle"
    /\ Throws(p, req[p])
    /\ UNCHANGED <<wallets, transactions, hist, ledger>>

\* ------------------------------------------------ transactions.transfer
\* the call, up to the outcome of `await getWalletById(input.fromWalletId)`
\* the call with the source wallet looked up but its owner not compared
TransferCall_AnyOwner(p, u, from, to, toUser, a) ==
    /\ Accept(p)
    /\ LET rq == [NoReq EXCEPT !.op = "transfer", !.user = u, !.walletId = from,
                               !.toWalletId = to, !.toUserId = toUser, !.amount = a]
           fromWallet == getWalletById(from) IN
        IF Len(fromWallet) = 0
        THEN Return(p, rq, Err("Invalid source wallet"))
        ELSE Goto(p, "t_getTo", rq, [NoLoc EXCEPT !.balance = fromWallet[1].balance])
    /\ UNCHANGED <<wallets, transactions, ledger>>

TransferCall(p, u, from, to, toUser, a) ==
    /\ Accept(p)
    /\ LET rq == [NoReq EXCEPT !.op = "transfer", !.user = u, !.walletId = from,
                               !.toWalletId = to, !.toUserId = toUser, !.amount = a]
           fromWallet == getWalletById(from) IN
        IF Len(fromWallet) = 0 \/ fromWallet[1].userId # u
        THEN Return(p, rq, Err("Invalid source wallet"))
        ELSE Goto(p, "t_getTo", rq, [NoLoc EXCEPT !.balance = fromWallet[1].balance])
    /\ UNCHANGED <<wallets, transactions, ledger>>

Transfer(p) ==
    \E u \in Callers, from \in WalletIds :
        /\ TxRoom
        /\ \/ CallThrows(p, "transfer", u, "")
           \/ \E to \in WalletIds, toUser \in ToUsers, a \in Amounts :
                 TransferCall(p, u, from, to, toUser, a)

\* the second lookup with the transaction recorded ahead of the balance check
TransferGetTo_RecordsFirst(p) ==
    /\ pc[p] = "t_getTo"
    /\ LET toWallet == getWalletById(req[p].toWalletId) IN
        IF Len(toWallet) = 0
        THEN /\ Return(p, req[p], Err("Invalid destination wallet"))
             /\ UNCHANGED <<transactions, hist>>
        ELSE IF loc[p].balance < req[p].amount
        THEN /\ transactions' = createTransaction(transactions,
                    TransactionData(req[p].user, req[p].toUserId, req[p].walletId,
                                    req[p].toWalletId, req[p].amount, 0, "transfer", "failed"))
             /\ WroteTx(p)
             /\ Return(p, req[p], Err("Insufficient balance"))
        ELSE /\ Goto(p, "t_createTx", req[p], [loc[p] EXCEPT !.toBalance = toWallet[1].balance])
             /\ UNCHANGED <<transactions, hist>>
    /\ UNCHANGED <<wallets, ledger>>

\* `await getWalletById(input.toWalletId)` and the balance check
TransferGetTo(p) ==
    /\ pc[p] = "t_getTo"
    /\ LET toWallet == getWalletById(req[p].toWalletId) IN
        IF Len(toWallet) = 0
        THEN Return(p, req[p], Err("Invalid destination wallet"))
        ELSE IF loc[p].balance < req[p].amount
        THEN Return(p, req[p], Err("Insufficient balance"))
        ELSE Goto(p, "t_createTx", req[p], [loc[p] EXCEPT !.toBalance = toWallet[1].balance])
    /\ UNCHANGED <<wallets, transactions, hist, ledger>>

\* `await createTransaction(transactionData)`
TransferCreateTx(p) ==
    /\ pc[p] = "t_createTx"
    /\ transactions' = createTransaction(transactions,
            TransactionData(req[p].user, req[p].toUserId, req[p].walletId,
                            req[p].toWalletId, req[p].amount, 0, "transfer", "completed"))
    /\ WroteTx(p)
    /\ Goto(p, "t_updFrom", req[p], loc[p])
    /\ UNCHANGED <<wallets, ledger>>

\* the first balance update under wallet locks taken in request order: it
\* waits while another transfer in its balance updates holds the destination
TransferUpdateFrom_WaitsForLock(p) ==
    /\ pc[p] = "t_updFrom"
    /\ \A q \in Procs \ {p} :
          ~(pc[q] \in {"t_updFrom", "t_updTo"} /\ req[q].walletId = req[p].toWalletId)
    /\ LET newFromBalance == loc[p].balance - req[p].amount IN
        /\ wallets' = updateWalletBalance(wallets, req[p].walletId, newFromBalance)
        /\ WroteBalance(p, req[p].walletId, newFromBalance)
    /\ Goto(p, "t_updTo", req[p], loc[p])
    /\ UNCHANGED <<transactions, ledger>>

\* `await updateWalletBalance(input.fromWalletId, newFromBalance)`
TransferUpdateFrom(p) ==
    /\ pc[p] = "t_updFrom"
    /\ LET newFromBalance == loc[p].balance - req[p].amount IN
        /\ wallets' = updateWalletBalance(wallets, req[p].walletId, newFromBalance)
        /\ WroteBalance(p, req[p].walletId, newFromBalance)
    /\ Goto(p, "t_updTo", req[p], loc[p])
    /\ UNCHANGED <<transactions, ledger>>

\* `await updateWalletBalance(input.toWalletId, newToBalance)` and the return
TransferUpdateTo(p) ==
    /\ pc[p] = "t_updTo"
    /\ LET newToBalance == loc[p].toBalance + req[p].amount IN
        /\ wallets' = updateWalletBalance(wallets, req[p].toWalletId, newToBalance)
        /\ WroteBalance(p, req[p].toWalletId, newToBalance)
    /\ Return(p, req[p], Ok("Transfer completed successfully"))
    /\ ledger' = [w \in RowIds |->
                    ledger[w]
                    - (IF w = req[p].walletId THEN req[p].amount ELSE 0)
                    + (IF w = req[p].toWalletId THEN req[p].amount ELSE 0)]
    /\ UNCHANGED transactions

\* ------------------------------------------- transactions.recordDeposit
\* the call, up to the outcome of `await getWalletById(input.walletId)`
RecordDepositCall(p, u, w, a) ==
    /\ Accept(p)
    /\ LET rq == [NoReq EXCEPT !.op = "recordDeposit", !.user = u, !.walletId = w,
                               !.amount = a]
           wallet == getWalletById(w) IN
        IF Len(wallet) = 0 \/ wallet[1].userId # u
        THEN Return(p, rq, Err("Invalid wallet"))
        ELSE Goto(p, "d_createTx", rq, [NoLoc EXCEPT !.balance = wallet[1].balance])
    /\ UNCHANGED <<wallets, transactions, ledger>>

RecordDeposit(p) ==
    \E u \in Callers, w \in WalletIds :
        /\ TxRoom
        /\ \/ CallThrows(p, "recordDeposit", u, "")
           \/ \E a \in Amounts : RecordDepositCall(p, u, w, a)

\* `await createTransaction(transactionData)`
DepositCreateTx(p) ==
    /\ pc[p] = "d_createTx"
    /\ transactions' = createTransaction(transactions,
            TransactionData(0, req[p].user, req[p].walletId, req[p].walletId,
                            req[p].amount, 0, "deposit", "completed"))
    /\ WroteTx(p)
    /\ Goto(p, "d_upd", req[p], loc[p])
    /\ UNCHANGED <<wallets, ledger>>

\* `await updateWalletBalance(input.walletId, newBalance)` and the return
DepositUpdate(p) ==
    /\ pc[p] = "d_upd"
    /\ LET newBalance == loc[p].balance + req[p].amount IN
        /\ wallets' = updateWalletBalance(wallets, req[p].walletId, newBalance)
        /\ WroteBalance(p, req[p].walletId, newBalance)
    /\ Return(p, req[p], Ok("Deposit recorded successfully"))
    /\ ledger' = [ledger EXCEPT ![req[p].walletId] = @ + req[p].amount]
    /\ UNCHANGED transactions

\* ---------------------------------------- transactions.recordWithdrawal
\* the call, up to the outcome of `await getWalletById(input.walletId)` and
\* the balance check
RecordWithdrawalCall(p, u, w, a) ==
    /\ Accept(p)
    /\ LET rq == [NoReq EXCEPT !.op = "recordWithdrawal", !.user = u, !.walletId = w,
                               !.amount = a]
           wallet == getWalletById(w) IN
        IF Len(wallet) = 0 \/ wallet[1].userId # u
        THEN Return(p, rq, Err("Invalid wallet"))
        ELSE IF wallet[1].balance < a
        THEN Return(p, rq, Err("Insufficient balance"))
        ELSE Goto(p, "w_createTx", rq, [NoLoc EXCEPT !.balance = wallet[1].balance])
    /\ UNCHANGED <<wallets, transactions, ledger>>

RecordWithdrawal(p) ==
    \E u \in Callers, w \in WalletIds :
        /\ TxRoom
        /\ \/ CallThrows(p, "recordWithdrawal", u, "")
           \/ \E a \in Amounts : RecordWithdrawalCall(p, u, w, a)

\* `await createTransaction(transactionData)`
WithdrawalCreateTx(p) ==
    /\ pc[p] = "w_createTx"
    /\ transactions' = createTransaction(transactions,
            TransactionData(req[p].user, 0, req[p].walletId, req[p].walletId,
                            req[p].amount, 0, "withdrawal", "completed"))
    /\ WroteTx(p)
    /\ Goto(p, "w_upd", req[p], loc[p])
    /\ UNCHANGED <<wallets, ledger>>

\* `await updateWalletBalance(input.walletId, newBalance)` and the return
WithdrawalUpdate(p) ==
    /\ pc[p] = "w_upd"
    /\ LET newBalance == loc[p].balance - req[p].amount IN
        /\ wallets' = updateWalletBalance(wallets, req[p].walletId, newBalance)
        /\ WroteBalance(p, req[p].walletId, newBalance)
    /\ Return(p, req[p], Ok("Withdrawal recorded successfully"))
    /\ ledger' = [ledger EXCEPT ![req[p].walletId] = @ - req[p].amount]
    /\ UNCHANGED transactions

\* ------------------------------------------------------- wallets.create
\* the call, up to the outcome of `await getUserWallets(ctx.user.id)`
\* the call without the test for an existing wallet
CreateCall_NoLookup(p, u, c, address) ==
    /\ Accept(p)
    /\ Goto(p, "c_create", [NoReq EXCEPT !.op = "create", !.user = u, !.currency = c,
                                         !.address = address], NoLoc)
    /\ UNCHANGED <<wallets, transactions, ledger>>

AlreadyExistsMsg(c) == "Wallet for " \o c \o " already exists"

CreatedMsg(c) == c \o " wallet created successfully"

CreateCall(p, u, c, address) ==
    /\ Accept(p)
    /\ LET rq == [NoReq EXCEPT !.op = "create", !.user = u, !.currency = c,
                               !.address = address]
           existingWallets == getUserWallets(u)
           exists == \E i \in DOMAIN existingWallets : existingWallets[i].currencyCode = c IN
        IF exists
        THEN Return(p, rq, Err(AlreadyExistsMsg(c)))
        ELSE Goto(p, "c_create", rq, NoLoc)
    /\ UNCHANGED <<wallets, transactions, ledger>>

Create(p) ==
    \E u \in Users, c \in Currencies :
        /\ WalletRoom
        /\ \/ CallThrows(p, "create", u, c)
           \/ \E address \in Addresses : CreateCall(p, u, c, address)

\* the insertion with a direct balance-set: the caller's wallets start afresh
CreateInsert_ResetsBalances(p) ==
    /\ pc[p] = "c_create"
    /\ wallets' = createWallet(
            [i \in DOMAIN wallets |->
                IF wallets[i].userId = req[p].user
                THEN [wallets[i] EXCEPT !.balance = 0] ELSE wallets[i]],
            req[p].user, req[p].currency, req[p].address)
    /\ WroteWallet(p)
    /\ Return(p, req[p], Ok(CreatedMsg(req[p].currency)))
    /\ UNCHANGED <<transactions, ledger>>

\* `await createWallet(ctx.user.id, input.currencyCode, input.address)`
CreateInsert(p) ==
    /\ pc[p] = "c_create"
    /\ wallets' = createWallet(wallets, req[p].user, req[p].currency, req[p].address)
    /\ WroteWallet(p)
    /\ Return(p, req[p], Ok(CreatedMsg(req[p].currency)))
    /\ UNCHANGED <<transactions, ledger>>

\* ----------------------------------------------- crypto.generateAddress
\* existingWallets.find(w => w.currencyCode === c): the first match, as a list
Find(ws, c) ==
    LET hits == SelectSeq(ws, LAMBDA w : w.currencyCode = c) IN
    IF Len(hits) = 0 THEN <<>> ELSE <<hits[1]>>

\* wallet?.address || "1A1z7agoat4FqCnf4Xy2MQUqLCWCuqq2em"
AddressOrDefault(wallet) ==
    IF Len(wallet) = 0 \/ wallet[1].address = "" THEN MockBTC ELSE wallet[1].address

mockAddress(c) == IF c = "BTC" THEN MockBTC ELSE MockETH

\* the call, up to the outcome of `await getUserWallets(ctx.user.id)`
\* the call without the test for an existing wallet
GenerateAddressCall_NoLookup(p, u, c) ==
    /\ Accept(p)
    /\ Goto(p, "g_create", [NoReq EXCEPT !.op = "generateAddress", !.user = u,
                                         !.currency = c, !.address = mockAddress(c)], NoLoc)
    /\ UNCHANGED <<wallets, transactions, ledger>>

GenerateAddressCall(p, u, c) ==
    /\ Accept(p)
    /\ LET rq == [NoReq EXCEPT !.op = "generateAddress", !.user = u, !.currency = c,
                               !.address = mockAddress(c)]
           existingWallets == getUserWallets(u)
           exists == \E i \in DOMAIN existingWallets : existingWallets[i].currencyCode = c IN
        IF exists
        THEN Return(p, rq, OkAddress(AddressOrDefault(Find(existingWallets, c))))
        ELSE Goto(p, "g_create", rq, NoLoc)
    /\ UNCHANGED <<wallets, transactions, ledger>>

GenerateAddress(p) ==
    \E u \in Users, c \in Cryptos :
        /\ WalletRoom
        /\ \/ CallThrows(p, "generateAddress", u, c)
           \/ GenerateAddressCall(p, u, c)

\* `await createWallet(ctx.user.id, input.cryptocurrency, mockAddress)`
GenerateInsert(p) ==
    /\ pc[p] = "g_create"
    /\ wallets' = createWallet(wallets, req[p].user, req[p].currency, req[p].address)
    /\ WroteWallet(p)
    /\ Return(p, req[p], OkAddress(req[p].address))
    /\ UNCHANGED <<transactions, ledger>>

\* ------------------------------------------------------------ the system
\* Two users hold a USD wallet each; user 1 has deposited 1 unit.
InitTables(b) ==
    /\ wallets = <<[Wallet(1, 1, "USD", "") EXCEPT !.balance = b], Wallet(2, 2, "USD", "")>>
    /\ transactions =
          createTransaction(<<>>, TransactionData(0, 1, 1, 1, b, 0, "deposit", "completed"))
    /\ ledger = [NoDelta EXCEPT ![1] = b]

InitHandlers ==
    /\ pc = [p \in Procs |-> "idle"]
    /\ req = [p \in Procs |-> NoReq]
    /\ loc = [p \in Procs |-> NoLoc]
    /\ resp = [p \in Procs |-> NoResp]
    /\ hist = [p \in Procs |-> NoHist]

Init == InitTables(1) /\ InitHandlers

\* the ledger: transfers, deposits and withdrawals of concurrent requests
Next ==
    \E p \in Procs :
        \/ Transfer(p)
        \/ TransferGetTo(p)
        \/ TransferCreateTx(p)
        \/ TransferUpdateFrom(p)
        \/ TransferUpdateTo(p)
        \/ RecordDeposit(p)
        \/ DepositCreateTx(p)
        \/ DepositUpdate(p)
        \/ RecordWithdrawal(p)
        \/ WithdrawalCreateTx(p)
        \/ WithdrawalUpdate(p)
        \/ StorageFails(p)

Spec == Init /\ [][Next]_vars

\* the wallet directory: wallets.create and crypto.generateAddress of
\* concurrent requests
NextWallets ==
    \E p \in Procs :
        \/ Create(p)
        \/ CreateInsert(p)
        \/ GenerateAddress(p)
        \/ GenerateInsert(p)
        \/ StorageFails(p)

SpecWallets == Init /\ [][NextWallets]_vars

\* the wallet directory when every call runs to completion before the next
\* one starts
Quiet == \A p \in Procs : pc[p] = "idle"

NextWalletsSerial ==
    \E p \in Procs :
        \/ Quiet /\ Create(p)
        \/ CreateInsert(p)
        \/ Quiet /\ GenerateAddress(p)
        \/ GenerateInsert(p)
        \/ StorageFails(p)

SpecWalletsSerial == Init /\ [][NextWalletsSerial]_vars

\* one call per handler on wallet 1, which holds 100: a transfer to wallet 2,
\* a deposit or a withdrawal, each of an amount the wallet can afford alone
RaceTransfer(p) ==
    \E a \in RaceAmounts :
        /\ req[p] = NoReq
        /\ \/ CallThrows(p, "transfer", 1, "")
           \/ TransferCall(p, 1, 1, 2, 2, a)

RaceDeposit(p) ==
    \E a \in RaceAmounts :
        /\ req[p] = NoReq
        /\ \/ CallThrows(p, "recordDeposit", 1, "")
           \/ RecordDepositCall(p, 1, 1, a)

RaceWithdrawal(p) ==
    \E a \in RaceAmounts :
        /\ req[p] = NoReq
        /\ \/ CallThrows(p, "recordWithdrawal", 1, "")
           \/ RecordWithdrawalCall(p, 1, 1, a)

NextRace ==
    \E p \in Procs :
        \/ RaceTransfer(p)
        \/ TransferGetTo(p)
        \/ TransferCreateTx(p)
        \/ TransferUpdateFrom(p)
        \/ TransferUpdateTo(p)
        \/ RaceDeposit(p)
        \/ DepositCreateTx(p)
        \/ DepositUpdate(p)
        \/ RaceWithdrawal(p)
        \/ WithdrawalCreateTx(p)
        \/ WithdrawalUpdate(p)
        \/ StorageFails(p)

InitRace == InitTables(100) /\ InitHandlers

SpecRace == InitRace /\ [][NextRace]_vars

\* ------------------------------------------------------------ vocabulary
\* the call of handler p has returned with response r
Returned(p, op) == pc[p] = "idle" /\ req[p].op = op

\* the step is the arrival of a call at handler p
CallStep(p) ==
    /\ pc[p] = "idle"
    /\ <<pc[p], req[p], resp[p], hist[p]>>' # <<pc[p], req[p], resp[p], hist[p]>>

Owned(walletId, u) == walletId \in DOMAIN wallets /\ wallets[walletId].userId = u

HasWallet(u, c) ==
    \E i \in DOMAIN wallets : wallets[i].userId = u /\ wallets[i].currencyCode = c

\* ------------------------------------------------------------ ledger claims
Balance(walletId) == wallets[walletId].balance

\* C1: a transfer that answers success leaves balance(from) + balance(to) as
\* it was and changes no other wallet: what the call wrote to the two wallets
\* adds up to nothing, and it wrote to no third wallet.
C1_Conservation ==
    [][\A p \in Procs :
          (pc[p] = "t_updTo" /\ pc'[p] = "idle" /\ resp'[p].success)
          => LET d == hist'[p].delta
                 from == req[p].walletId
                 to == req[p].toWalletId
             IN  /\ (IF from = to THEN d[from] ELSE d[from] + d[to]) = 0
                 /\ \A w \in RowIds \ {from, to} : d[w] = 0]_vars

\* C2: no wallet ever holds a negative balance.
C2_NoNegativeBalance == \A i \in DOMAIN wallets : Balance(i) >= 0

\* C3: of two transfers of 60 or 80 out of a wallet holding 100, started
\* together, exactly one answers success and the other answers insufficient
\* balance, and the wallet ends with what the successful one left.
C3_OneWriterWins ==
    (\A p \in Procs : Returned(p, "transfer") /\ resp[p].msg # CatchMsg("transfer"))
    => /\ Cardinality({p \in Procs : resp[p].success}) = 1
       /\ \A p \in Procs : ~resp[p].success => resp[p] = Err("Insufficient balance")
       /\ Balance(1) = ledger[1]

\* C4: when concurrent transfers, deposits and withdrawals on a common wallet
\* have all answered success, every wallet holds its initial balance plus the
\* credits minus the debits of those calls.
C4_NoLostUpdate ==
    (\A p \in Procs : pc[p] = "idle" /\ resp[p].success)
    => \A i \in DOMAIN wallets : Balance(i) = ledger[i]

\* the balance changes the row tx stands for
ExpectedDelta(tx) ==
    [w \in RowIds |->
        (IF tx.transactionType \in {"transfer", "deposit"} /\ tx.toWalletId = w
            THEN tx.amount ELSE 0)
        - (IF tx.transactionType \in {"transfer", "withdrawal"} /\ tx.fromWalletId = w
            THEN tx.amount ELSE 0)]

\* C5: once a call is over, either it has recorded its transaction and made
\* all of that transaction's balance changes, or it has recorded nothing and
\* changed no balance; a storage failure between two writes included.
C5_AllOrNothing ==
    \A p \in Procs :
        pc[p] = "idle"
        => \/ hist[p].txs = {} /\ hist[p].delta = NoDelta
           \/ \E id \in hist[p].txs :
                  /\ hist[p].txs = {id}
                  /\ hist[p].delta = ExpectedDelta(transactions[id])

ValidationErrors ==
    {"Invalid source wallet", "Invalid destination wallet", "Insufficient balance"}

\* handler p moves in the step
Moves(p) == <<pc[p], req[p], resp[p], hist[p]>>' # <<pc[p], req[p], resp[p], hist[p]>>

\* C6: a transfer that fails validation (source wallet missing or foreign,
\* destination wallet missing, balance too small) has written nothing: the
\* call recorded no transaction and changed no balance, and the step that
\* answers leaves both tables as they were.
C6_FailedValidationWritesNothing ==
    /\ [](\A p \in Procs :
            (Returned(p, "transfer") /\ resp[p].msg \in ValidationErrors)
            => hist[p] = NoHist)
    /\ [][\A p \in Procs :
            (Moves(p) /\ pc'[p] = "idle" /\ req'[p].op = "transfer"
                /\ resp'[p].msg \in ValidationErrors)
            => wallets' = wallets /\ transactions' = transactions]_vars

C6_Witness ==
    \E p \in Procs :
        /\ Returned(p, "transfer")
        /\ resp[p] = Err("Insufficient balance")
        /\ hist[p] = NoHist

\* ------------------------------------------------------------ wallet claims
\* C7: no two wallets share an owner and a currency, concurrent creations of
\* the same pair included.
C7_WalletUniqueness ==
    \A i, j \in DOMAIN wallets :
        (wallets[i].userId = wallets[j].userId
            /\ wallets[i].currencyCode = wallets[j].currencyCode)
        => i = j

WalletsOf(u, c) ==
    SelectSeq(wallets, LAMBDA w : w.userId = u /\ w.currencyCode = c)

C9_CreateRejectsExisting ==
    [][\A p \in Procs :
          /\ (CallStep(p) /\ req'[p].op = "create"
                 /\ HasWallet(req'[p].user, req'[p].currency))
             => /\ pc'[p] = "idle"
                /\ resp'[p] \in {Err(AlreadyExistsMsg(req'[p].currency)),
                                Err(CatchMsg("create"))}
                /\ wallets' = wallets
          /\ (pc[p] = "c_create" /\ pc'[p] = "idle" /\ resp'[p].success)
             => /\ Len(wallets') = Len(wallets) + 1
                /\ SubSeq(wallets', 1, Len(wallets)) = wallets
                /\ wallets'[Len(wallets')].balance = 0
                /\ wallets'[Len(wallets')].userId = req[p].user
                /\ wallets'[Len(wallets')].currencyCode = req[p].currency]_vars

C9_Witness ==
    \E p, q \in Procs :
        /\ Returned(p, "create") /\ resp[p] = Err(AlreadyExistsMsg(req[p].currency))
        /\ HasWallet(req[p].user, req[p].currency)
        /\ Returned(q, "create") /\ resp[q].success
        /\ \E id \in hist[q].wallets : wallets[id].balance = 0

LedgerOps == {"transfer", "recordDeposit", "recordWithdrawal"}

InvalidMsg(op) == IF op = "transfer" THEN "Invalid source wallet" ELSE "Invalid wallet"

\* C10: a transfer, deposit or withdrawal whose wallet (the source wallet of
\* a transfer) is missing or belongs to another user answers invalid wallet
\* at once, records no transaction and changes no balance; a handler past
\* that test works on a wallet of its caller.
C10_OwnershipCheck ==
    /\ [](\A p \in Procs :
            (pc[p] # "idle" /\ req[p].op \in LedgerOps)
            => Owned(req[p].walletId, req[p].user))
    /\ [][\A p \in Procs :
            (CallStep(p) /\ req'[p].op \in LedgerOps /\ req'[p].walletId # 0
                /\ ~Owned(req'[p].walletId, req'[p].user))
            => /\ pc'[p] = "idle"
               /\ resp'[p] = Err(InvalidMsg(req'[p].op))
               /\ hist'[p] = NoHist
               /\ wallets' = wallets
               /\ transactions' = transactions]_vars

C10_Witness ==
    \E p, q \in Procs :
        /\ Returned(p, "transfer") /\ resp[p] = Err("Invalid source wallet")
        /\ req[p].walletId \in DOMAIN wallets /\ ~Owned(req[p].walletId, req[p].user)
        /\ Returned(q, "recordDeposit") /\ resp[q] = Err("Invalid wallet")
        /\ req[q].walletId \notin DOMAIN wallets
        /\ hist[p] = NoHist /\ hist[q] = NoHist

\* ------------------------------------------------------------ amounts
\* C11: every recorded transaction has an amount above zero, and a transfer,
\* deposit or withdrawal of an amount that is not above zero records no
\* transaction and changes no balance.
C11_PositiveAmounts ==
    /\ \A i \in DOMAIN transactions : transactions[i].amount > 0
    /\ \A p \in Procs :
          (pc[p] # "idle" /\ req[p].op \in LedgerOps /\ req[p].amount <= 0)
          => hist[p] = NoHist

\* ------------------------------------------- decimal strings and doubles
\* A decimal(18,8) string is [whole, frac]: whole units and 10^-Scale units.
\* A double in the binade [2^Binade, 2^(Binade+1)) is [whole, k]: whole units
\* and k units in the last place, each 2^(Binade - (MantissaBits - 1)).
Scale == 8
MantissaBits == 53
Binade == 27
MaxFrac == 3

Ulps == 2^(MantissaBits - 1 - Binade)      \* units in the last place per unit
Units == 10^Scale                          \* smallest units per unit

Dec(whole, frac) == [whole |-> whole, frac |-> frac]

DecBalances == {Dec(w, f) : w \in {2^Binade, 2^Binade + 1}, f \in 0..MaxFrac}
DecAmounts == {Dec(2^Binade, f) : f \in 0..MaxFrac}

InBinade(d) == 2^Binade <= d.whole /\ d.whole < 2^(Binade + 1)

\* n / d rounded to the nearest integer, ties to even (n >= 0, d > 0)
RoundHalfEven(n, d) ==
    LET q == n \div d
        r == n % d
    IN  IF 2 * r > d \/ (2 * r = d /\ q % 2 = 1) THEN q + 1 ELSE q

\* n / d rounded to the nearest integer, ties away from zero (d > 0)
RoundHalfAway(n, d) ==
    LET m == IF n < 0 THEN -n ELSE n
        q == m \div d
        r == m % d
        h == IF 2 * r >= d THEN q + 1 ELSE q
    IN  IF n < 0 THEN -h ELSE h

\* parseFloat of a decimal string in the binade: the nearest double
parseFloat(d) ==
    [whole |-> d.whole, k |-> RoundHalfEven(d.frac * Ulps, Units)]

\* `balance < amount` on doubles
FloatLess(x, y) == x.whole < y.whole \/ (x.whole = y.whole /\ x.k < y.k)

\* `balance - amount` on doubles of one binade, which is exact
FloatMinus(x, y) == [whole |-> x.whole - y.whole, k |-> x.k - y.k]

\* `.toString()` of a double and its storage in the decimal(18,8) column,
\* which rounds to Scale places
toDecimal(x) ==
    LET units == x.whole * Units + RoundHalfAway(x.k * Units, Ulps)
    IN  Dec(units \div Units, units % Units)

\* comparison and difference of the decimal values themselves
DecLess(a, b) == a.whole < b.whole \/ (a.whole = b.whole /\ a.frac < b.frac)

DecMinus(a, b) ==
    LET units == (a.whole - b.whole) * Units + a.frac - b.frac
    IN  Dec(units \div Units, units % Units)

\* transactions.recordWithdrawal on decimal strings: the call, up to the
\* outcome of `await getWalletById(input.walletId)` and the balance check
DecimalWithdrawalCall(p, u, w, a) ==
    /\ Accept(p)
    /\ LET rq == [NoReq EXCEPT !.op = "recordWithdrawal", !.user = u, !.walletId = w,
                               !.amount = a]
           wallet == getWalletById(w) IN
        IF Len(wallet) = 0 \/ wallet[1].userId # u
        THEN Return(p, rq, Err("Invalid wallet"))
        ELSE /\ InBinade(wallet[1].balance)
             /\ IF FloatLess(parseFloat(wallet[1].balance), parseFloat(a))
                THEN Return(p, rq, Err("Insufficient balance"))
                ELSE Goto(p, "wd_createTx", rq, [NoLoc EXCEPT !.balance = wallet[1].balance])
    /\ UNCHANGED <<wallets, transactions, ledger>>

DecimalWithdrawal(p) ==
    \E u \in Callers, w \in {1, 2} :
        /\ TxRoom
        /\ \/ CallThrows(p, "recordWithdrawal", u, "")
           \/ \E a \in DecAmounts : DecimalWithdrawalCall(p, u, w, a)

\* `await createTransaction(transactionData)`
DecimalWithdrawalCreateTx(p) ==
    /\ pc[p] = "wd_createTx"
    /\ transactions' = createTransaction(transactions,
            TransactionData(req[p].user, 0, req[p].walletId, req[p].walletId,
                            req[p].amount, 0, "withdrawal", "completed"))
    /\ WroteTx(p)
    /\ Goto(p, "wd_upd", req[p], loc[p])
    /\ UNCHANGED <<wallets, ledger>>

\* `await updateWalletBalance(input.walletId, newBalance)` and the return
DecimalWithdrawalUpdate(p) ==
    /\ pc[p] = "wd_upd"
    /\ LET balance == parseFloat(loc[p].balance)
           amount == parseFloat(req[p].amount)
           newBalance == toDecimal(FloatMinus(balance, amount)) IN
        wallets' = updateWalletBalance(wallets, req[p].walletId, newBalance)
    /\ Return(p, req[p], Ok("Withdrawal recorded successfully"))
    /\ UNCHANGED <<transactions, hist, ledger>>

InitDecimal ==
    /\ \E b \in DecBalances :
          wallets = <<[Wallet(1, 1, "BTC", MockBTC) EXCEPT !.balance = b],
                      [Wallet(2, 2, "BTC", MockBTC) EXCEPT !.balance = Dec(0, 0)]>>
    /\ transactions = <<>>
    /\ ledger = NoDelta
    /\ InitHandlers

NextDecimal ==
    \E p \in Procs :
        \/ DecimalWithdrawal(p)
        \/ DecimalWithdrawalCreateTx(p)
        \/ DecimalWithdrawalUpdate(p)
        \/ StorageFails(p)

SpecDecimal == InitDecimal /\ [][NextDecimal]_vars

\* C12: recordWithdrawal answers insufficient balance whenever the amount
\* exceeds the balance, compared exactly in smallest units, so a withdrawal
\* that goes on to write was of an amount no larger than the balance it read;
\* and the balance it writes is the balance it read less exactly the amount.
C12_ExactWithdrawal ==
    /\ [](\A p \in Procs :
            pc[p] \in {"wd_createTx", "wd_upd"}
            => ~DecLess(loc[p].balance, req[p].amount))
    /\ [][\A p \in Procs :
            (pc[p] = "wd_upd" /\ pc'[p] = "idle" /\ resp'[p].success)
            => wallets'[req[p].walletId].balance
                   = DecMinus(loc[p].balance, req[p].amount)]_vars

\* -------------------------------------------- crypto.initiateWithdrawal
MockFee == 50000        \* fee: "0.0005", in smallest units

\* the call, up to the outcome of `await getUserWallets(ctx.user.id)`, the
\* search for the wallet of the currency and the balance check
InitiateWithdrawalCall(p, u, c, a) ==
    /\ Accept(p)
    /\ LET rq == [NoReq EXCEPT !.op = "initiateWithdrawal", !.user = u, !.currency = c,
                               !.amount = a]
           wallet == Find(getUserWallets(u), c) IN
        IF Len(wallet) = 0
        THEN Return(p, rq, Err("Wallet not found"))
        ELSE IF wallet[1].balance < a
        THEN Return(p, [rq EXCEPT !.walletId = wallet[1].id], Err("Insufficient balance"))
        ELSE Goto(p, "i_createTx", [rq EXCEPT !.walletId = wallet[1].id],
                  [NoLoc EXCEPT !.balance = wallet[1].balance])
    /\ UNCHANGED <<wallets, transactions, ledger>>

InitiateWithdrawal(p) ==
    \E u \in Callers, c \in Cryptos :
        /\ TxRoom
        /\ \/ CallThrows(p, "initiateWithdrawal", u, c)
           \/ \E a \in Amounts : InitiateWithdrawalCall(p, u, c, a)

\* `await createTransaction(transactionData)` and the return; the handler
\* has no updateWalletBalance
InitiateCreateTx(p) ==
    /\ pc[p] = "i_createTx"
    /\ transactions' = createTransaction(transactions,
            TransactionData(req[p].user, 0, req[p].walletId, req[p].walletId,
                            req[p].amount, MockFee, "withdrawal", "pending"))
    /\ WroteTx(p)
    /\ Return(p, req[p], Ok("Withdrawal initiated successfully"))
    /\ UNCHANGED <<wallets, ledger>>

\* a call of `reverse`: neither router defines the procedure, so the call is
\* answered with the router's not-found error and reaches no handler
Reverse(p) ==
    \E u \in Callers, id \in 1..MaxTx :
        /\ Accept(p)
        /\ Return(p, [NoReq EXCEPT !.op = "reverse", !.user = u, !.transactionId = id],
                  Err("NOT_FOUND"))
        /\ UNCHANGED <<wallets, transactions, ledger>>

\* user 1 holds b in a BTC wallet, received by a deposit
InitCryptoTables(b) ==
    /\ wallets = <<[Wallet(1, 1, "BTC", MockBTC) EXCEPT !.balance = b],
                   Wallet(2, 2, "BTC", MockBTC)>>
    /\ transactions =
          createTransaction(<<>>, TransactionData(0, 1, 1, 1, b, 0, "deposit", "completed"))
    /\ ledger = [NoDelta EXCEPT ![1] = b]

InitCrypto == InitCryptoTables(1) /\ InitHandlers

NextCrypto ==
    \E p \in Procs :
        \/ InitiateWithdrawal(p)
        \/ InitiateCreateTx(p)
        \/ Reverse(p)
        \/ RecordWithdrawal(p)
        \/ WithdrawalCreateTx(p)
        \/ WithdrawalUpdate(p)
        \/ StorageFails(p)

SpecCrypto == InitCrypto /\ [][NextCrypto]_vars

\* C13: a crypto withdrawal that answers success has recorded its transaction
\* as pending and has taken the amount out of the wallet's balance.
C13_InitiateDebits ==
    \A p \in Procs :
        (Returned(p, "initiateWithdrawal") /\ resp[p].success)
        => \E id \in hist[p].txs :
              /\ hist[p].txs = {id}
              /\ transactions[id].status = "pending"
              /\ transactions[id].amount > 0
                    => hist[p].delta = ExpectedDelta(transactions[id])

\* C14: a reverse of a pending withdrawal that has been answered leaves the
\* withdrawal failed and its amount credited back to the wallet, once.
C14_ReverseIdempotent ==
    \A p \in Procs :
        (/\ Returned(p, "reverse")
         /\ req[p].transactionId \in DOMAIN transactions
         /\ transactions[req[p].transactionId].transactionType = "withdrawal"
         /\ transactions[req[p].transactionId].status \in {"pending", "failed"})
        => /\ resp[p].success
           /\ transactions[req[p].transactionId].status = "failed"

\* ------------------------------------------------- transactions.export
ExportLimit == 10000
ExportSizes == {1, 3, ExportLimit + 2}     \* rows in the table when exporting
Formats == {"csv", "json"}

Min(a, b) == IF a < b THEN a ELSE b

\* rows newest first: `orderBy(desc(transactions.createdAt))`, the rows
\* having been inserted one after the other
NewestFirst(rows) == [i \in 1..Len(rows) |-> rows[Len(rows) + 1 - i]]

\* the query without its where clause
getUserTransactions_AllUsers(userId, limit, offset) ==
    SubSeq(NewestFirst(transactions), offset + 1, Min(Len(transactions), offset + limit))

getUserTransactions(userId, limit, offset) ==
    LET mine == SelectSeq(transactions,
                          LAMBDA t : t.fromUserId = userId \/ t.toUserId = userId)
    IN  SubSeq(NewestFirst(mine), offset + 1, Min(Len(mine), offset + limit))

\* the decimal digits of a number in JSON text, and the number they spell
RECURSIVE Digits(_)
Digits(n) == IF n < 10 THEN <<n>> ELSE Append(Digits(n \div 10), n % 10)

RECURSIVE Number(_)
Number(digits) ==
    IF Len(digits) = 0 THEN 0
    ELSE 10 * Number(SubSeq(digits, 1, Len(digits) - 1)) + digits[Len(digits)]

\* JSON values, each with the kind of its token: a number is written as its
\* digits, a string as itself, a NULL column (0 here) as null
JsonNumber(n) ==
    IF n = 0 THEN <<"null">> ELSE <<"number", Digits(n)>>

JsonString(s) == <<"string", s>>

\* JSON.stringify of a row: ids are numbers; the decimal columns (amount,
\* fee) come from the driver as strings and the enums are strings
stringifyRow(t) ==
    [id |-> JsonNumber(t.id),
     fromUserId |-> JsonNumber(t.fromUserId), toUserId |-> JsonNumber(t.toUserId),
     fromWalletId |-> JsonNumber(t.fromWalletId), toWalletId |-> JsonNumber(t.toWalletId),
     amount |-> JsonString(t.amount), fee |-> JsonString(t.fee),
     transactionType |-> JsonString(t.transactionType), status |-> JsonString(t.status)]

stringify(rows) == [i \in DOMAIN rows |-> stringifyRow(rows[i])]

\* JSON.parse
parseValue(v) == IF v[1] = "number" THEN Number(v[2])
                 ELSE IF v[1] = "null" THEN 0 ELSE v[2]

parse(data) ==
    [i \in DOMAIN data |-> [f \in DOMAIN data[i] |-> parseValue(data[i][f])]]

\* the CSV lines: header, then id, type, status, amount, fee of each row
\* (date and description are not part of the model's rows)
csv(rows) ==
    <<<<"ID", "Type", "Status", "Amount", "Fee">>>>
    \o [i \in DOMAIN rows |->
          <<Digits(rows[i].id), rows[i].transactionType, rows[i].status,
            rows[i].amount, rows[i].fee>>]

\* the query: `await getUserTransactions(ctx.user.id, 10000, 0)` and the return
ExportCall(p, u, f) ==
    /\ Accept(p)
    /\ LET rows == getUserTransactions(u, ExportLimit, 0)
           rq == [NoReq EXCEPT !.op = "export", !.user = u, !.format = f] IN
        Return(p, rq, OkData(IF f = "json" THEN stringify(rows) ELSE csv(rows)))
    /\ UNCHANGED <<wallets, transactions, ledger>>

Export(p) ==
    \E u \in Users :
        \/ CallThrows(p, "export", u, "")
        \/ \E f \in Formats : ExportCall(p, u, f)

\* a table of n deposits of 1, the oldest into user 2's wallet and the
\* others into user 1's
InitExport ==
    /\ wallets = <<Wallet(1, 1, "USD", ""), Wallet(2, 2, "USD", "")>>
    /\ \E n \in ExportSizes :
          transactions =
              [i \in 1..n |->
                  [TransactionData(0, IF i = 1 THEN 2 ELSE 1, IF i = 1 THEN 2 ELSE 1,
                                   IF i = 1 THEN 2 ELSE 1, 1, 0, "deposit", "completed")
                      EXCEPT !.id = i]]
    /\ ledger = NoDelta
    /\ InitHandlers

NextExport == \E p \in Procs : Export(p)

SpecExport == InitExport /\ [][NextExport]_vars

\* the fields the round trip is about
Summary(t) ==
    [id |-> t.id, amount |-> t.amount, type |-> t.transactionType, status |-> t.status]

TransactionsOf(u) ==
    SelectSeq(transactions, LAMBDA t : t.fromUserId = u \/ t.toUserId = u)

\* C15: the JSON export of a user's N transactions parses back to exactly N
\* records, with the id, amount, type and status of the stored transactions.
C15_ExportRoundTrip ==
    \A p \in Procs :
        (Returned(p, "export") /\ resp[p].success /\ req[p].format = "json")
        => LET back == parse(resp[p].data)
               mine == TransactionsOf(req[p].user)
           IN  /\ Len(back) = Len(mine)
               /\ {Summary(back[i]) : i \in DOMAIN back}
                      = {Summary(mine[i]) : i \in DOMAIN mine}


\* ------------------------------------------------------------ C16
\* C16: each cryptocurrency wallet has a unique deposit address: whenever
\* generateAddress creates a wallet, the address it stores and returns is
\* held by no wallet that already exists, whoever owns it.
C16_UniqueAddress ==
    [][\A p \in Procs :
          (pc[p] = "g_create" /\ pc'[p] = "idle" /\ resp'[p].success)
          => \A i \in DOMAIN wallets : wallets[i].address # resp'[p].address]_vars


\* ------------------------------------------------------------ C17
\* what the first n recorded transactions add up to for wallet w: deposits
\* and incoming transfers minus withdrawals and outgoing transfers
RECURSIVE SumOfRecords(_, _)
SumOfRecords(n, w) ==
    IF n = 0 THEN 0 ELSE SumOfRecords(n - 1, w) + ExpectedDelta(transactions[n])[w]

\* C17: ledger consistency: in every state with no operation in flight, each
\* wallet's balance equals the sum of the recorded deposits and incoming
\* transfers for it minus the sum of the recorded withdrawals and outgoing
\* transfers from it.
C17_LedgerConsistency ==
    Quiet => \A i \in DOMAIN wallets : Balance(i) = SumOfRecords(Len(transactions), i)


\* ------------------------------------------------------------ C18
\* C18: every transfer that is applied has fromWalletId different from
\* toWalletId, and both name existing, active wallets: no recorded transfer
\* goes from a wallet to itself or names a missing or inactive wallet.
C18_DistinctActiveWallets ==
    \A i \in DOMAIN transactions :
        transactions[i].transactionType = "transfer"
        => /\ transactions[i].fromWalletId # transactions[i].toWalletId
           /\ \A w \in {transactions[i].fromWalletId, transactions[i].toWalletId} :
                 w \in DOMAIN wallets /\ wallets[w].isActive


\* ------------------------------------------------------------ C19
\* C19: a recordDeposit of a positive amount that answers success has
\* increased its wallet's balance by exactly the amount, has changed no other
\* wallet's balance, and has recorded exactly one transaction, of type
\* deposit and status completed, for that amount and wallet.
C19_DepositCredits ==
    [][\A p \in Procs :
          (pc[p] = "d_upd" /\ pc'[p] = "idle" /\ resp'[p].success /\ req[p].amount > 0)
          => /\ hist'[p].delta = [NoDelta EXCEPT ![req[p].walletId] = req[p].amount]
             /\ \E id \in DOMAIN transactions' :
                   /\ hist'[p].txs = {id}
                   /\ transactions'[id].transactionType = "deposit"
                   /\ transactions'[id].status = "completed"
                   /\ transactions'[id].amount = req[p].amount
                   /\ transactions'[id].toWalletId = req[p].walletId]_vars


\* ------------------------------------------------------------ C20
\* one call of crypto.initiateWithdrawal per handler, by user 1 on BTC
RaceInitiate(p) ==
    \E a \in RaceAmounts :
        /\ req[p] = NoReq
        /\ \/ CallThrows(p, "initiateWithdrawal", 1, "BTC")
           \/ InitiateWithdrawalCall(p, 1, "BTC", a)

\* every operation that writes the transactions table, one call per handler
NextLog ==
    \E p \in Procs :
        \/ RaceTransfer(p)
        \/ TransferGetTo(p)
        \/ TransferCreateTx(p)
        \/ TransferUpdateFrom(p)
        \/ TransferUpdateTo(p)
        \/ RaceDeposit(p)
        \/ DepositCreateTx(p)
        \/ DepositUpdate(p)
        \/ RaceWithdrawal(p)
        \/ WithdrawalCreateTx(p)
        \/ WithdrawalUpdate(p)
        \/ RaceInitiate(p)
        \/ InitiateCreateTx(p)
        \/ StorageFails(p)

InitLog == InitCryptoTables(100) /\ InitHandlers

SpecLog == InitLog /\ [][NextLog]_vars

Terminal == {"completed", "failed", "cancelled"}

\* C20: the transaction state machine: no step removes a transaction; a
\* recorded transaction changes, if at all, only by its status moving from
\* pending to completed, failed or cancelled, so a terminal status, the
\* amount and the parties never change; and the transactions that transfer,
\* recordDeposit and recordWithdrawal create are created completed.
C20_TransactionStateMachine ==
    [][/\ Len(transactions') >= Len(transactions)
       /\ \A i \in DOMAIN transactions :
             \/ transactions'[i] = transactions[i]
             \/ /\ transactions[i].status = "pending"
                /\ transactions'[i].status \in Terminal
                /\ transactions'[i] = [transactions[i] EXCEPT !.status = transactions'[i].status]
       /\ \A p \in Procs :
             (pc[p] \in {"t_createTx", "d_createTx", "w_createTx"} /\ pc'[p] # pc[p]
                 /\ Len(transactions') > Len(transactions))
             => transactions'[Len(transactions')].status = "completed"]_vars

C20_Witness ==
    /\ Quiet
    /\ Len(transactions) = 3
    /\ \E i, j \in DOMAIN transactions :
          /\ i < j
          /\ transactions[i].status = "pending"
          /\ transactions[j].transactionType = "transfer"
          /\ transactions[j].status = "completed"
    /\ transactions[1].status = "completed" /\ transactions[1].amount = 100


\* ------------------------------------------------------------ C21
\* one transfer per handler in the opposite direction: user 2 sends from
\* wallet 2 to wallet 1 of user 1
RaceTransferBack(p) ==
    \E a \in RaceAmounts :
        /\ req[p] = NoReq
        /\ \/ CallThrows(p, "transfer", 2, "")
           \/ TransferCall(p, 2, 2, 1, 1, a)

\* both users hold 100, received by a deposit each
InitLive ==
    /\ wallets = <<[Wallet(1, 1, "USD", "") EXCEPT !.balance = 100],
                   [Wallet(2, 2, "USD", "") EXCEPT !.balance = 100]>>
    /\ transactions =
          createTransaction(
              createTransaction(<<>>, TransactionData(0, 1, 1, 1, 100, 0, "deposit", "completed")),
              TransactionData(0, 2, 2, 2, 100, 0, "deposit", "completed"))
    /\ ledger = [NoDelta EXCEPT ![1] = 100, ![2] = 100]
    /\ InitHandlers

NextLive ==
    \E p \in Procs :
        \/ RaceTransfer(p)
        \/ RaceTransferBack(p)
        \/ TransferGetTo(p)
        \/ TransferCreateTx(p)
        \/ TransferUpdateFrom(p)
        \/ TransferUpdateTo(p)
        \/ RaceDeposit(p)
        \/ DepositCreateTx(p)
        \/ DepositUpdate(p)
        \/ RaceWithdrawal(p)
        \/ WithdrawalCreateTx(p)
        \/ WithdrawalUpdate(p)
        \/ StorageFails(p)

\* every awaited storage call of a handler settles: the handlers take no lock
\* and wait for nothing but the call they await; that a call fails
\* (StorageFails) is possible and never required
SpecLive ==
    /\ InitLive
    /\ [][NextLive]_vars
    /\ \A p \in Procs :
          WF_vars(\/ TransferGetTo(p)
                  \/ TransferCreateTx(p)
                  \/ TransferUpdateFrom(p)
                  \/ TransferUpdateTo(p)
                  \/ DepositCreateTx(p)
                  \/ DepositUpdate(p)
                  \/ WithdrawalCreateTx(p)
                  \/ WithdrawalUpdate(p))

\* C21: deadlock freedom: every started transfer, deposit or withdrawal
\* eventually returns success or an error, two concurrent transfers between
\* the same two wallets in opposite directions included.
C21_EveryCallReturns ==
    \A p \in Procs : (pc[p] # "idle") ~> (pc[p] = "idle" /\ resp[p] # NoResp)

C21_Witness ==
    \E p, q \in Procs :
        /\ Returned(p, "transfer") /\ resp[p].success /\ req[p].user = 1
        /\ Returned(q, "transfer") /\ resp[q].success /\ req[q].user = 2
        /\ Len(transactions) = 4


\* ------------------------------------------------------ transactions.list
OkList(rows) == [NoResp EXCEPT !.success = TRUE, !.data = rows, !.total = Len(rows)]

\* `if (input.type) filtered = filtered.filter(...)`, the same for status;
\* "" stands for a filter that is not given
Filtered(rows, type, status) ==
    LET byType == IF type = "" THEN rows
                  ELSE SelectSeq(rows, LAMBDA t : t.transactionType = type)
    IN  IF status = "" THEN byType
        ELSE SelectSeq(byType, LAMBDA t : t.status = status)

\* the handler with the filters applied by the query, ahead of the page cut
TransactionsList_FiltersInQuery(p) ==
    \E u \in Users :
        \/ CallThrows(p, "transactions.list", u, "")
        \/ \E limit \in {1, 2}, offset \in {0, 1},
              type \in {"", "deposit", "transfer"}, status \in {"", "completed"} :
              LET all == Filtered(getUserTransactions(u, Len(transactions), 0), type, status) IN
              /\ Accept(p)
              /\ Return(p, [NoReq EXCEPT !.op = "transactions.list", !.user = u,
                                         !.limit = limit, !.offset = offset,
                                         !.type = type, !.status = status],
                        OkList(SubSeq(all, offset + 1, Min(Len(all), offset + limit))))
              /\ UNCHANGED <<wallets, transactions, ledger>>

\* the query is the handler's only await
TransactionsList(p) ==
    \E u \in Users :
        \/ CallThrows(p, "transactions.list", u, "")
        \/ \E limit \in {1, 2}, offset \in {0, 1},
              type \in {"", "deposit", "transfer"}, status \in {"", "completed"} :
              /\ Accept(p)
              /\ Return(p, [NoReq EXCEPT !.op = "transactions.list", !.user = u,
                                         !.limit = limit, !.offset = offset,
                                         !.type = type, !.status = status],
                        OkList(Filtered(getUserTransactions(u, limit, offset), type, status)))
              /\ UNCHANGED <<wallets, transactions, ledger>>

\* row i of a table of recorded transactions: the oldest is a deposit of
\* user 2, then transfers from user 1 to user 2, pending withdrawals of
\* user 1 and deposits of user 1 in turn
RecordedRow(i) ==
    [(CASE i = 1 -> TransactionData(0, 2, 2, 2, 1, 0, "deposit", "completed")
        [] i > 1 /\ i % 3 = 0 -> TransactionData(1, 2, 1, 2, 1, 0, "transfer", "completed")
        [] i > 1 /\ i % 3 = 1 -> TransactionData(1, 0, 1, 1, 1, MockFee, "withdrawal", "pending")
        [] OTHER -> TransactionData(0, 1, 1, 1, 1, 0, "deposit", "completed"))
     EXCEPT !.id = i]

InitList ==
    /\ wallets = <<Wallet(1, 1, "USD", ""), Wallet(2, 2, "USD", "")>>
    /\ \E n \in {3, 6} : transactions = [i \in 1..n |-> RecordedRow(i)]
    /\ ledger = NoDelta
    /\ InitHandlers

NextList == \E p \in Procs : TransactionsList(p)

SpecList == InitList /\ [][NextList]_vars

Party(t, u) == t.fromUserId = u \/ t.toUserId = u

\* the transactions of user u recorded after t
NewerOf(u, t) == {i \in DOMAIN transactions : Party(transactions[i], u) /\ i > t.id}

\* C22: transactions.list returns only transactions of which the caller is
\* the sender or the recipient, newest first, none of the caller's first
\* `offset` newest ones and at most `limit`; without filters it returns
\* exactly the caller's transactions number offset+1 to offset+limit, counted
\* from the newest.
C22_ListOwnNewestFirst ==
    \A p \in Procs :
        (Returned(p, "transactions.list") /\ resp[p].success)
        => LET rows == resp[p].data
               u == req[p].user
               mine == {i \in DOMAIN transactions : Party(transactions[i], u)} IN
           /\ \A k \in DOMAIN rows :
                 /\ rows[k].id \in mine /\ rows[k] = transactions[rows[k].id]
                 /\ Cardinality(NewerOf(u, rows[k])) >= req[p].offset
                 /\ Cardinality(NewerOf(u, rows[k])) < req[p].offset + req[p].limit
           /\ \A k, l \in DOMAIN rows : k < l => rows[k].id > rows[l].id
           /\ Len(rows) <= req[p].limit
           /\ (req[p].type = "" /\ req[p].status = "")
              => \A k \in DOMAIN rows : Cardinality(NewerOf(u, rows[k])) = req[p].offset + k - 1
           /\ (req[p].type = "" /\ req[p].status = "")
              => Len(rows) = Min(req[p].limit,
                                 IF Cardinality(mine) > req[p].offset
                                 THEN Cardinality(mine) - req[p].offset ELSE 0)

C22_Witness ==
    \E p \in Procs :
        /\ Returned(p, "transactions.list") /\ resp[p].success
        /\ req[p].user = 2 /\ req[p].offset = 1 /\ req[p].limit = 2
        /\ req[p].type = "" /\ req[p].status = ""
        /\ Len(transactions) = 6
        /\ Len(resp[p].data) = 2
        /\ resp[p].data[2].id = 1


\* --------------------------------------------------- transactions.getById
GetByIdLimit == 1000

\* `getUserTransactions(ctx.user.id, 1000, 0)`, then `find` by id
TransactionsGetById(p) ==
    \E u \in Users :
        \/ CallThrows(p, "transactions.getById", u, "")
        \/ \E id \in {1, 2, 3, 9} :
              LET found == SelectSeq(getUserTransactions(u, GetByIdLimit, 0),
                                     LAMBDA t : t.id = id)
                  rq == [NoReq EXCEPT !.op = "transactions.getById", !.user = u,
                                      !.transactionId = id] IN
              /\ Accept(p)
              /\ IF Len(found) = 0
                 THEN Return(p, rq, Err("Transaction not found"))
                 ELSE Return(p, rq, OkData(<<found[1]>>))
              /\ UNCHANGED <<wallets, transactions, ledger>>

\* tables of which the larger gives user 1 one transaction more than the
\* handler fetches
InitGetById ==
    /\ wallets = <<Wallet(1, 1, "USD", ""), Wallet(2, 2, "USD", "")>>
    /\ \E n \in {3, 6, GetByIdLimit + 2} : transactions = [i \in 1..n |-> RecordedRow(i)]
    /\ ledger = NoDelta
    /\ InitHandlers

NextGetById == \E p \in Procs : TransactionsGetById(p)

SpecGetById == InitGetById /\ [][NextGetById]_vars

\* C23: transactions.getById returns the transaction whenever it exists and
\* the caller is its sender or recipient, however many transactions the
\* caller has, and answers not found otherwise (the generic failure when the
\* query throws).
C23_GetByIdFindsOwn ==
    \A p \in Procs :
        (Returned(p, "transactions.getById") /\ resp[p].msg # CatchMsg("transactions.getById"))
        => LET id == req[p].transactionId IN
           IF id \in DOMAIN transactions /\ Party(transactions[id], req[p].user)
           THEN resp[p].success /\ resp[p].data = <<transactions[id]>>
           ELSE resp[p] = Err("Transaction not found")


\* ------------------------------------------------------------ C30
\* C30: transactions.list applies the type and status filters to the page
\* already cut by limit and offset: every returned transaction matches the
\* filters given, the returned transactions are exactly those of the
\* unfiltered page for the same limit and offset that match, in the page's
\* order, and `total` is the number of transactions returned.
C30_FiltersApplyToPage ==
    \A p \in Procs :
        (Returned(p, "transactions.list") /\ resp[p].success)
        => LET rows == resp[p].data
               page == getUserTransactions(req[p].user, req[p].limit, req[p].offset)
               Matches(t) == /\ req[p].type # "" => t.transactionType = req[p].type
                             /\ req[p].status # "" => t.status = req[p].status
               At(t) == CHOOSE k \in DOMAIN page : page[k] = t IN
           /\ \A k \in DOMAIN rows : Matches(rows[k])
           /\ {rows[k] : k \in DOMAIN rows} = {page[k] : k \in {l \in DOMAIN page : Matches(page[l])}}
           /\ \A k, l \in DOMAIN rows : k < l => At(rows[k]) < At(rows[l])
           /\ resp[p].total = Len(rows)

C30_Witness ==
    \E p \in Procs :
        /\ Returned(p, "transactions.list") /\ resp[p].success
        /\ req[p].user = 1 /\ req[p].offset = 0 /\ req[p].limit = 2
        /\ req[p].type = "deposit"
        /\ Len(transactions) = 6
        /\ resp[p].data = <<transactions[5]>>
        /\ resp[p].total = 1


\* ------------------------------------------------ wallets.getDistribution
\* Balances are decimal strings here too: Dec(whole, frac) with whole and frac
\* of one sign. A double is whole + k / FineUlps, on the slice of the doubles
\* from the binade below Binade to the one above it.
FineUlps == 2^(MantissaBits - Binade)      \* ulps per unit in the binade below Binade

\* the double nearest to whole + (n / d) / FineUlps, ties to even: doubles are
\* FineUlps per unit apart below 2^Binade, twice that up to 2^(Binade + 1),
\* four times above
Nearest(whole, n, d) ==
    LET m == IF whole < 0 THEN -whole ELSE whole
        g == IF m < 2^Binade THEN 1 ELSE IF m < 2^(Binade + 1) THEN 2 ELSE 4
    IN  [whole |-> whole,
         k |-> IF n < 0 THEN -(g * RoundHalfEven(-n, d * g)) ELSE g * RoundHalfEven(n, d * g)]

\* parseFloat(wallet.balance)
parseBalance(d) == Nearest(d.whole, d.frac * FineUlps, Units)

\* `sum + parseFloat(wallet.balance)` on doubles: the exact sum, rounded
FloatPlus(x, y) ==
    LET w == x.whole + y.whole
        k == x.k + y.k
    IN  IF w > 0 /\ k < 0 THEN Nearest(w - 1, k + FineUlps, 1)
        ELSE IF w < 0 /\ k > 0 THEN Nearest(w + 1, k - FineUlps, 1)
        ELSE Nearest(w, k, 1)

\* `wallets.reduce((sum, wallet) => sum + parseFloat(wallet.balance), 0)`
RECURSIVE FloatTotal(_, _)
FloatTotal(ws, n) ==
    IF n = 0 THEN [whole |-> 0, k |-> 0]
    ELSE FloatPlus(FloatTotal(ws, n - 1), parseBalance(ws[n].balance))

\* the handler; a percentage is kept as the two doubles whose quotient, times
\* 100, it is
DecimalDistribution(p) ==
    \E u \in Users :
        \/ CallThrows(p, "getDistribution", u, "")
        \/ LET ws == getUserWallets(u)
               totalValue == FloatTotal(ws, Len(ws))
               rq == [NoReq EXCEPT !.op = "getDistribution", !.user = u] IN
           /\ Accept(p)
           /\ IF totalValue = [whole |-> 0, k |-> 0]
              THEN Return(p, rq, OkData(<<>>))
              ELSE Return(p, rq, OkData(
                       [i \in DOMAIN ws |->
                           [currency |-> ws[i].currencyCode, balance |-> ws[i].balance,
                            percentage |-> [num |-> parseBalance(ws[i].balance),
                                            den |-> totalValue]]]))
           /\ UNCHANGED <<wallets, transactions, ledger>>

\* user 1 holds three wallets and user 2 one; a balance is 0 or what one
\* recordDeposit into an empty wallet leaves: an amount of the binade below
\* Binade or, for a deposit of a negative amount, the negative of two such
\* amounts
InitDistribution ==
    /\ \E b1 \in {Dec(0, 0), Dec(2^(Binade - 1), 0)},
          b2 \in {Dec(0, 0), Dec(2^(Binade - 1), 10)},
          b3 \in {Dec(0, 0), Dec(-(2^Binade), -10)} :
          wallets = <<[Wallet(1, 1, "USD", "") EXCEPT !.balance = b1],
                      [Wallet(2, 1, "BTC", MockBTC) EXCEPT !.balance = b2],
                      [Wallet(3, 1, "ETH", MockETH) EXCEPT !.balance = b3],
                      [Wallet(4, 2, "USD", "") EXCEPT !.balance = Dec(2^(Binade - 1), 1)]>>
    /\ transactions = <<>>
    /\ ledger = NoDelta
    /\ InitHandlers

NextDistribution == \E p \in Procs : DecimalDistribution(p)

SpecDistribution == InitDistribution /\ [][NextDistribution]_vars

\* C24: getDistribution returns an empty sequence when the caller's balances
\* total 0, and otherwise one entry per wallet of the caller, in the order of
\* the wallets, with that wallet's currency and balance and with the
\* percentage balance / total of the caller's balances x 100.
C24_Distribution ==
    \A p \in Procs :
        (Returned(p, "getDistribution") /\ resp[p].success)
        => LET ws == getUserWallets(req[p].user)
               whole == IF Len(ws) = 1 THEN ws[1].balance.whole
                        ELSE ws[1].balance.whole + ws[2].balance.whole + ws[3].balance.whole
               frac == IF Len(ws) = 1 THEN ws[1].balance.frac
                       ELSE ws[1].balance.frac + ws[2].balance.frac + ws[3].balance.frac
               rows == resp[p].data IN
           IF whole = 0 /\ frac = 0
           THEN rows = <<>>
           ELSE /\ Len(rows) = Len(ws)
                /\ \A i \in DOMAIN rows :
                      /\ rows[i].currency = ws[i].currencyCode
                      /\ rows[i].balance = ws[i].balance
                      /\ rows[i].percentage.num = parseBalance(ws[i].balance)
                      /\ rows[i].percentage.den = FloatTotal(ws, Len(ws))


\* ------------------------------------------------- the read-only handlers
\* wallets.list
WalletsList(p) ==
    \E u \in Users :
        \/ CallThrows(p, "wallets.list", u, "")
        \/ /\ Accept(p)
           /\ Return(p, [NoReq EXCEPT !.op = "wallets.list", !.user = u],
                     OkData(getUserWallets(u)))
           /\ UNCHANGED <<wallets, transactions, ledger>>

\* wallets.getById answering a wallet of another user by a message of its own
WalletsGetById_Forbidden(p) ==
    \E u \in Users, w \in WalletIds :
        LET wallet == getWalletById(w)
            rq == [NoReq EXCEPT !.op = "wallets.getById", !.user = u, !.walletId = w] IN
        /\ Accept(p)
        /\ IF Len(wallet) = 0 THEN Return(p, rq, Err("Wallet not found"))
           ELSE IF wallet[1].userId # u THEN Return(p, rq, Err("Forbidden"))
           ELSE Return(p, rq, OkData(wallet))
        /\ UNCHANGED <<wallets, transactions, ledger>>

\* wallets.getById
WalletsGetById(p) ==
    \E u \in Users, w \in WalletIds :
        \/ CallThrows(p, "wallets.getById", u, "")
        \/ LET wallet == getWalletById(w)
               rq == [NoReq EXCEPT !.op = "wallets.getById", !.user = u, !.walletId = w] IN
           /\ Accept(p)
           /\ IF Len(wallet) = 0 \/ wallet[1].userId # u
              THEN Return(p, rq, Err("Wallet not found"))
              ELSE Return(p, rq, OkData(wallet))
           /\ UNCHANGED <<wallets, transactions, ledger>>

\* wallets.getBalance
GetBalance(p) ==
    \E u \in Users, w \in WalletIds :
        \/ CallThrows(p, "getBalance", u, "")
        \/ LET wallet == getWalletById(w)
               rq == [NoReq EXCEPT !.op = "getBalance", !.user = u, !.walletId = w] IN
           /\ Accept(p)
           /\ IF Len(wallet) = 0 \/ wallet[1].userId # u
              THEN Return(p, rq, Err("Wallet not found"))
              ELSE Return(p, rq, OkData(<<[balance |-> wallet[1].balance,
                                           currency |-> wallet[1].currencyCode]>>))
           /\ UNCHANGED <<wallets, transactions, ledger>>

\* `wallets.reduce((sum, wallet) => sum + parseFloat(wallet.balance), 0)` on
\* balances that are whole numbers of units, which doubles add exactly
RECURSIVE TotalValue(_, _)
TotalValue(ws, n) == IF n = 0 THEN 0 ELSE TotalValue(ws, n - 1) + ws[n].balance

\* wallets.getPortfolioValue, for the default base currency
GetPortfolioValue(p) ==
    \E u \in Users :
        \/ CallThrows(p, "getPortfolioValue", u, "USD")
        \/ LET ws == getUserWallets(u) IN
           /\ Accept(p)
           /\ Return(p, [NoReq EXCEPT !.op = "getPortfolioValue", !.user = u,
                                      !.currency = "USD"],
                     OkData(<<[totalValue |-> TotalValue(ws, Len(ws)), currency |-> "USD"]>>))
           /\ UNCHANGED <<wallets, transactions, ledger>>

\* wallets.getDistribution on such balances
GetDistribution(p) ==
    \E u \in Users :
        \/ CallThrows(p, "getDistribution", u, "")
        \/ LET ws == getUserWallets(u)
               totalValue == TotalValue(ws, Len(ws))
               rq == [NoReq EXCEPT !.op = "getDistribution", !.user = u] IN
           /\ Accept(p)
           /\ IF totalValue = 0
              THEN Return(p, rq, OkData(<<>>))
              ELSE Return(p, rq, OkData(
                       [i \in DOMAIN ws |->
                           [currency |-> ws[i].currencyCode, balance |-> ws[i].balance,
                            percentage |-> [num |-> ws[i].balance, den |-> totalValue]]]))
           /\ UNCHANGED <<wallets, transactions, ledger>>

\* crypto.getDepositAddress
GetDepositAddress(p) ==
    \E u \in Users, c \in Cryptos :
        \/ CallThrows(p, "getDepositAddress", u, c)
        \/ LET wallet == Find(getUserWallets(u), c)
               rq == [NoReq EXCEPT !.op = "getDepositAddress", !.user = u, !.currency = c] IN
           /\ Accept(p)
           /\ IF Len(wallet) = 0 \/ wallet[1].address = ""
              THEN Return(p, rq, Err("Wallet not found"))
              ELSE Return(p, rq, OkAddress(wallet[1].address))
           /\ UNCHANGED <<wallets, transactions, ledger>>

\* one handler serving wallets.create and crypto.generateAddress, up to one
\* wallet short of MaxWallets, and the other serving the read-only procedures
\* meanwhile
NextReads ==
    \/ \E p \in {"p1"} :
          \/ Len(wallets) < MaxWallets - 1 /\ Create(p)
          \/ CreateInsert(p)
          \/ Len(wallets) < MaxWallets - 1 /\ GenerateAddress(p)
          \/ GenerateInsert(p)
          \/ StorageFails(p)
    \/ \E p \in {"p2"} :
          \/ WalletsList(p)
          \/ WalletsGetById(p)
          \/ GetBalance(p)
          \/ GetPortfolioValue(p)
          \/ GetDistribution(p)
          \/ GetDepositAddress(p)
          \/ TransactionsList(p)
          \/ TransactionsGetById(p)
          \/ Export(p)

SpecReads == Init /\ [][NextReads]_vars

\* wallets.create and the two reads of one wallet, of concurrent requests
NextWalletReads ==
    \E p \in Procs :
        \/ Create(p)
        \/ CreateInsert(p)
        \/ WalletsGetById(p)
        \/ GetBalance(p)
        \/ StorageFails(p)

SpecWalletReads == Init /\ [][NextWalletReads]_vars

\* ------------------------------------------------------------ C29
\* C29: wallet read isolation: wallets.getById and wallets.getBalance answer
\* with a wallet's data only to its owner, and for a wallet of another user
\* the answer is the very answer given for a wallet id that does not exist,
\* so that what a caller is told does not depend on the wallets or balances
\* of other users.
C29_ReadIsolation ==
    [][\A p \in Procs :
          (CallStep(p) /\ req'[p].op \in {"wallets.getById", "getBalance"}
              /\ resp'[p].msg # CatchMsg(req'[p].op))
          => LET w == req'[p].walletId
                 u == req'[p].user IN
             IF Owned(w, u)
             THEN /\ resp'[p].success
                  /\ Len(resp'[p].data) = 1
                  /\ resp'[p].data[1].balance = Balance(w)
                  /\ req'[p].op = "wallets.getById" => resp'[p].data[1] = wallets[w]
             ELSE resp'[p] = Err("Wallet not found")]_vars

C29_Witness ==
    \E p, q \in Procs :
        /\ Returned(p, "wallets.getById") /\ req[p].user = 1 /\ req[p].walletId = 2
        /\ Owned(2, 2)
        /\ Returned(q, "wallets.getById") /\ req[q].user = 1 /\ req[q].walletId = 3
        /\ 3 \notin DOMAIN wallets
        /\ resp[p] = resp[q]
        /\ resp[p] = Err("Wallet not found")


\* ------------------------------------------------------------ C25
NonEngineOps ==
    {"create", "wallets.list", "wallets.getById", "getBalance", "getPortfolioValue",
     "getDistribution", "generateAddress", "getDepositAddress", "transactions.list",
     "transactions.getById", "export"}

\* C25: no second writer path: a step of wallets.create, list, getById,
\* getBalance, getPortfolioValue or getDistribution, of crypto.generateAddress
\* or getDepositAddress, or of transactions.list, getById or export leaves
\* every existing wallet, its balance included, and every transaction record
\* as they were; wallets.create and generateAddress at most add a wallet.
C25_NoSecondWriter ==
    [][\A p \in Procs :
          (Moves(p) /\ (req[p].op \in NonEngineOps \/ req'[p].op \in NonEngineOps))
          => /\ transactions' = transactions
             /\ Len(wallets') >= Len(wallets)
             /\ \A i \in DOMAIN wallets : wallets'[i] = wallets[i]
             /\ Len(wallets') > Len(wallets) => pc[p] \in {"c_create", "g_create"}]_vars

C25_Witness ==
    /\ Len(wallets) = 3
    /\ Balance(1) = 1
    /\ Len(transactions) = 1
    /\ Returned("p1", "generateAddress") /\ resp["p1"].success
    /\ Returned("p2", "getDistribution") /\ resp["p2"].success
    /\ Len(resp["p2"].data) = 2


\* ------------------------------------------------------------ C26
\* C26: only the owner can debit a wallet: whatever the amounts, a step that
\* lowers a wallet's balance belongs to a call of that wallet's owner; no call
\* of a user lowers the balance of another user's wallet.
C26_OnlyOwnerDebits ==
    [][\A i \in DOMAIN wallets :
          wallets'[i].balance < wallets[i].balance
          => \E p \in Procs : Moves(p) /\ req[p].user = wallets[i].userId]_vars

\* ------------------------------------------------------------ C28
\* a call of the ledger when no other call is running: a transfer between two
\* different wallets, a deposit or a withdrawal, of a positive amount
SerialCall(p) ==
    /\ Quiet
    /\ TxRoom
    /\ \E u \in Users, w \in WalletIds, a \in {1, 2} :
          \/ \E to \in WalletIds \ {w}, toUser \in Users : TransferCall(p, u, w, to, toUser, a)
          \/ RecordDepositCall(p, u, w, a)
          \/ RecordWithdrawalCall(p, u, w, a)

\* strictly serial execution without storage failures
NextLedgerSerial ==
    \E p \in Procs :
        \/ SerialCall(p)
        \/ TransferGetTo(p)
        \/ TransferCreateTx(p)
        \/ TransferUpdateFrom(p)
        \/ TransferUpdateTo(p)
        \/ DepositCreateTx(p)
        \/ DepositUpdate(p)
        \/ WithdrawalCreateTx(p)
        \/ WithdrawalUpdate(p)

SpecLedgerSerial == Init /\ [][NextLedgerSerial]_vars

\* On whole amounts, where the arithmetic of doubles is exact, the handlers
\* run one after the other agree with the reference ledger: between calls
\* every balance is the reference ledger's, a successful call has recorded
\* one completed transaction and made exactly its balance changes, a
\* rejected call has changed nothing, a transfer's last step leaves the
\* source debited and the destination credited by the amount, and no
\* balance is negative.
WholeAmountsAgreeWithLedger ==
    /\ [](Quiet => \A i \in DOMAIN wallets : Balance(i) = ledger[i])
    /\ [](\A i \in DOMAIN wallets : Balance(i) >= 0)
    /\ [](\A p \in Procs :
            (pc[p] = "idle" /\ req[p].op \in LedgerOps)
            => IF resp[p].success
               THEN \E id \in hist[p].txs :
                       /\ hist[p].txs = {id}
                       /\ transactions[id].status = "completed"
                       /\ hist[p].delta = ExpectedDelta(transactions[id])
               ELSE hist[p] = NoHist)
    /\ [][\A p \in Procs :
            (pc[p] = "t_updTo" /\ pc'[p] = "idle")
            => /\ resp'[p].success
               /\ wallets'[req[p].walletId].balance = loc[p].balance - req[p].amount
               /\ wallets'[req[p].toWalletId].balance
                     = wallets[req[p].toWalletId].balance + req[p].amount
               /\ \A i \in DOMAIN wallets \ {req[p].walletId, req[p].toWalletId} :
                     wallets'[i] = wallets[i]]_vars

\* recordWithdrawal of the reference ledger, exact in smallest units
ReferenceWithdrawal(balance, amount) ==
    IF DecLess(balance, amount)
    THEN [success |-> FALSE, balance |-> balance]
    ELSE [success |-> TRUE, balance |-> DecMinus(balance, amount)]

\* strictly serial execution without storage failures, on decimal strings
NextDecimalSerial ==
    \E p \in Procs :
        \/ \E u \in Users, w \in {1, 2}, a \in DecAmounts :
              Quiet /\ TxRoom /\ DecimalWithdrawalCall(p, u, w, a)
        \/ DecimalWithdrawalCreateTx(p)
        \/ DecimalWithdrawalUpdate(p)

SpecDecimalSerial == InitDecimal /\ [][NextDecimalSerial]_vars

OwnerOf(w, u) == w \in DOMAIN wallets /\ wallets[w].userId = u

\* C27: for every recorded transfer, fromUserId owns fromWalletId and
\* toUserId owns toWalletId.
C27_TransferPartiesOwnWallets ==
    \A i \in DOMAIN transactions :
        transactions[i].transactionType = "transfer"
        => /\ OwnerOf(transactions[i].fromWalletId, transactions[i].fromUserId)
           /\ OwnerOf(transactions[i].toWalletId, transactions[i].toUserId)

====
